---- MODULE Spec2Model ----
(***************************************************************************)
(* odsign (ondevice-signing/odsign_main.cpp): the boot-time run of main,   *)
(* as a state machine over the files, directories and system properties    *)
(* it touches.  One action per step of main, verifyCompOsKey and           *)
(* checkCompOsPendingArtifacts; every return of main runs the scope guard  *)
(* in the same step.  External collaborators (keystore, CertUtils,         *)
(* VerityUtils, odrefresh, compos_verify_key, the filesystem) answer       *)
(* nondeterministically.                                                   *)
(***************************************************************************)
EXTENDS Integers, Sequences, FiniteSets, TLC

\* ------------------------------------------------------------------ bounds
\* Number of distinct artifact file paths under an artifacts directory.
NumPaths == 1
\* Number of distinct file digests.
NumDigests == 2

\* Paths and digests of the maps verifyDigests is applied to on its own.
VerifyPaths == 2
VerifyDigestValues == 2

Paths == 1..NumPaths
Digests == 1..NumDigests

\* ------------------------------------------------------------------ data
\* std::map<std::string, std::string>: a set of <<path, digest>> pairs with
\* at most one pair per path.
DigestMaps == {m \in SUBSET (Paths \X Digests) :
                 \A e1 \in m, e2 \in m : e1[1] = e2[1] => e1 = e2}

\* The map in which every path has digest d.
FullMap(d) == {<<p, d>> : p \in Paths}

\* A directory: absent, or present with the regular files below it (a file
\* is identified with its digest).
NoDir == [exists |-> FALSE, files |-> {}]
Dir(m) == [exists |-> TRUE, files |-> m]

\* Directory states found at boot: the artifacts of an earlier boot, the
\* output CompOs left since.
BootArtDirs == {NoDir, Dir(FullMap(1))}
BootPendingDirs == {NoDir, Dir({}), Dir(FullMap(NumDigests))}

\* art::odrefresh::ExitCode as main distinguishes them.
ExitCodes == {"Okay", "CompilationRequired", "CompilationSuccess",
              "CompilationFailed", "CleanupFailed", "Unexpected"}

\* Public keys.  SigningPub is the keystore key's public key; StalePub is the
\* key of an earlier keystore key.
SigningPub == "K"
StalePub == "K_stale"
CompOsKeys == {"ck1", "ck2"}
kCompOsSubjectCn == "CompOs"

\* X.509 certificate files.
NoCert == [kind |-> "none", pub |-> "", signer |-> "", cn |-> ""]
X509(pub, signer, cn) == [kind |-> "x509", pub |-> pub, signer |-> signer, cn |-> cn]
\* A file that is not a certificate: no public key can be extracted from it.
Garbage == [kind |-> "garbage", pub |-> "", signer |-> "", cn |-> ""]
BootRootCerts == {NoCert, Garbage, X509(SigningPub, SigningPub, "ODS"),
                  X509(StalePub, StalePub, "ODS")}
BootCompOsCerts == {NoCert,
                    X509("ck1", SigningPub, kCompOsSubjectCn),
                    X509("ck1", StalePub, kCompOsSubjectCn),
                    X509("ck1", SigningPub, "other")}

\* odsign.info: the serialized OdsignInfo, a sequence of map entries.
\* odsign.info.signature: who signed, over which bytes.
NoFile == [exists |-> FALSE, bytes |-> <<>>]
File(b) == [exists |-> TRUE, bytes |-> b]
NoSig == [exists |-> FALSE, signer |-> "", over |-> <<>>]
Sig(k, b) == [exists |-> TRUE, signer |-> k, over |-> b]

\* The serializations of a map: its entries in any order.
Serializations(m) ==
  {s \in [1..Cardinality(m) -> m] : \A i, j \in 1..Cardinality(m) : s[i] = s[j] => i = j}

\* ParseFromIstream: entries are inserted in order, a later entry replacing
\* an earlier one with the same path.
Parse(b) ==
  {b[i] : i \in {j \in DOMAIN b : \A k \in DOMAIN b : (k > j) => b[k][1] # b[j][1]}}

\* The serialization that lists the entries by ascending path.
RECURSIVE SerializeInOrder(_)
SerializeInOrder(m) ==
  IF m = {} THEN <<>>
  ELSE LET e == CHOOSE x \in m : \A y \in m : x[1] <= y[1]
       IN <<e>> \o SerializeInOrder(m \ {e})

\* Manifest file pairs found at boot: none, a pair persisted by this key, a
\* data file whose signature was made by an earlier key, or a data file
\* changed since this key signed it.
BootManifests ==
  {<<NoFile, NoSig>>}
  \cup {<<File(SerializeInOrder(FullMap(d))), Sig(SigningPub, SerializeInOrder(FullMap(d)))>> :
          d \in {1, NumDigests}}
  \cup {<<File(SerializeInOrder(FullMap(1))), Sig(StalePub, SerializeInOrder(FullMap(1)))>>}
  \cup {<<File(SerializeInOrder(FullMap(NumDigests))),
          Sig(SigningPub, SerializeInOrder(FullMap(1)))>>}

\* A file main has not opened yet holds whatever boot left in it; the first
\* access settles which of the boot contents that is.
Unread == [kind |-> "unread", pub |-> "", signer |-> "", cn |-> ""]
UnreadFile == [unread |-> TRUE]
OnDisk(cert, boot) == IF cert = Unread THEN boot ELSE {cert}
ManifestOnDisk(info, sig) ==
  IF info = UnreadFile /\ sig = UnreadFile THEN BootManifests
  ELSE IF sig = UnreadFile THEN {<<info, mf[2]>> : mf \in BootManifests}
  ELSE IF info = UnreadFile THEN {<<mf[1], sig>> : mf \in BootManifests}
  ELSE {<<info, sig>>}

\* System properties.
NoProps == [keyDone |-> "unset", verificationDone |-> "unset",
            verificationStatus |-> "unset", stopService |-> "unset"]
kOdsignVerificationStatusValid == "1"
kOdsignVerificationStatusError == "0"
kForceCompilation == FALSE
kUseCompOs == TRUE

VARIABLES
  pc,               \* position in main
  exitCode,         \* main's return value ("0", "-1"), "SIGABRT" if aborted, "running" before
  scope_guard,      \* TRUE while the scope guard is enabled
  artDir,           \* kArtArtifactsDir
  pendingDir,       \* kCompOsPendingArtifactsDir
  rootCert,         \* kSigningKeyCert
  composCert,       \* kCompOsCert
  infoFile,         \* kOdsignInfo
  sigFile,          \* kOdsignInfoSignature
  props,            \* the system properties main sets
  supportsFsVerity, \* main's local
  useCompOs,        \* main's local
  odrefresh_status, \* main's local
  digests_verified, \* main's local
  compos_key,       \* the key verifyCompOsKey returned, "" if none
  digests,          \* the digests verifyAllFilesUsingCompOs returned
  log               \* every external call and property write, in order

vars == <<pc, exitCode, scope_guard, artDir, pendingDir, rootCert, composCert,
          infoFile, sigFile, props, supportsFsVerity, useCompOs,
          odrefresh_status, digests_verified, compos_key, digests, log>>

certs == <<rootCert, composCert>>
manifest == <<infoFile, sigFile>>
dirs == <<artDir, pendingDir>>
locals == <<supportsFsVerity, useCompOs, odrefresh_status, digests_verified,
            compos_key, digests>>

\* A log entry: the operation, its argument, its result.
Ev(op, arg, res) == <<op, arg, res>>
Bool(b) == IF b THEN "true" ELSE "false"
Ok(b) == IF b THEN "ok" ELSE "error"

Init ==
  /\ pc = "applicability"
  /\ exitCode = "running"
  /\ scope_guard = TRUE
  /\ artDir \in BootArtDirs
  /\ pendingDir \in BootPendingDirs
  /\ rootCert = Unread
  /\ composCert = Unread
  /\ infoFile = UnreadFile
  /\ sigFile = UnreadFile
  /\ props = NoProps
  /\ supportsFsVerity = FALSE
  /\ useCompOs = FALSE
  /\ odrefresh_status = "CompilationRequired"
  /\ digests_verified = FALSE
  /\ compos_key = ""
  /\ digests = {}
  /\ log = <<>>

\* ------------------------------------------------------------------ helpers
\* removeDirectory: remove_all either removes the whole tree, or reports an
\* error (logged, ignored by every caller) with the directory itself still
\* there.  What it had removed by then is taken at the two ends, none of
\* the files or all of them: the callers ask of a directory only whether it
\* exists and whether it is empty.
RemoveDirectory(d) ==
  {NoDir} \cup (IF d.exists THEN {Dir(d.files), Dir({})} ELSE {})

\* rename(from, to): std::filesystem::rename replaces an absent or empty
\* target directory; it fails on a missing source or a non-empty target and
\* may fail for any other reason.  On failure nothing has changed.
RenameCanSucceed(from, to) == from.exists /\ (~to.exists \/ to.files = {})

\* directoryHasContent: is_directory && !is_empty; is_empty answers false
\* when it reports an error.
DirectoryHasContent(d, isEmptyError) ==
  d.exists /\ ~(IF isEmptyError THEN FALSE ELSE d.files = {})

\* errorScopeGuard's property writes.
ErrorProps(pr) ==
  [pr EXCEPT !.keyDone = "1",
             !.verificationStatus = kOdsignVerificationStatusError,
             !.verificationDone = "1",
             !.stopService = "odsign"]

\* removeDirectory's log entry: "ok" when nothing is left of the directory,
\* "error" when remove_all reported an error (LOG(ERROR), return 0).
RemoveEvent(which, after) == Ev("removeDirectory", which, Ok(~after.exists))

\* What errorScopeGuard adds to the log; a2 and p2 are what the two
\* removals left.
ErrorEvents(a2, p2) ==
  <<Ev("errorScopeGuard", "", ""),
    RemoveEvent("art", a2), RemoveEvent("pending", p2),
    Ev("SetProperty", "odsign.key.done", "1"),
    Ev("SetProperty", "odsign.verification.success", kOdsignVerificationStatusError),
    Ev("SetProperty", "odsign.verification.done", "1"),
    Ev("SetProperty", "ctl.stop", "odsign")>>

\* Mutants of ScopeGuardRuns: a guard that never fires, a guard that fires
\* although it was disabled.
ScopeGuardRuns_Never(enabled) == FALSE
ScopeGuardRuns_Always(enabled) == TRUE

\* The scope guard's destructor runs errorScopeGuard unless it was disabled.
ScopeGuardRuns(enabled) == enabled

\* return code; from main: the scope guard goes out of scope.  a, p, pr and lg
\* are the directories, properties and log as the returning step left them.
Return(code, enabled, a, p, pr, lg) ==
  /\ pc' = "done"
  /\ exitCode' = code
  /\ scope_guard' = enabled
  /\ IF ScopeGuardRuns(enabled)
     THEN \E a2 \in RemoveDirectory(a), p2 \in RemoveDirectory(p) :
            /\ artDir' = a2
            /\ pendingDir' = p2
            /\ props' = ErrorProps(pr)
            /\ log' = lg \o ErrorEvents(a2, p2)
     ELSE /\ artDir' = a
          /\ pendingDir' = p
          /\ props' = pr
          /\ log' = lg


\* ------------------------------------------------------------------ main
\* main, lines 537-542: the guard is registered, then ro.apex.updatable is read.
main_applicability ==
  /\ pc = "applicability"
  /\ \E updatable \in BOOLEAN :
       LET lg == Append(log, Ev("GetBoolProperty", "ro.apex.updatable", Bool(updatable))) IN
       IF ~updatable
       THEN Return("0", scope_guard, artDir, pendingDir, props, lg)
       ELSE /\ pc' = "keystore"
            /\ log' = lg
            /\ UNCHANGED <<exitCode, scope_guard, dirs, props>>
  /\ UNCHANGED <<certs, manifest, locals>>

\* main, lines 544-549: KeystoreKey::getInstance.
main_keystore ==
  /\ pc = "keystore"
  /\ \E ok \in BOOLEAN :
       LET lg == Append(log, Ev("KeystoreKey::getInstance", "", Ok(ok))) IN
       IF ~ok
       THEN Return("-1", scope_guard, artDir, pendingDir, props, lg)
       ELSE /\ pc' = "fsverity"
            /\ log' = lg
            /\ UNCHANGED <<exitCode, scope_guard, dirs, props>>
  /\ UNCHANGED <<certs, manifest, locals>>

\* Mutant of AfterRootTrust: the CompOs path is taken whatever useCompOs says.
AfterRootTrust_AlwaysCompOs(use) == "vck_pending"

\* Where main goes once the root of trust is in place (lines 581-596).
AfterRootTrust(use) == IF use THEN "vck_pending" ELSE "compile"

\* main, lines 551-558: supportsFsVerity and useCompOs (&& evaluates
\* compOsPresent and isDebugBuild only as far as needed).
main_fsverity ==
  /\ pc = "fsverity"
  /\ \E fsv \in BOOLEAN, present \in BOOLEAN, debug \in BOOLEAN :
       LET use == kUseCompOs /\ fsv /\ present /\ debug IN
       /\ supportsFsVerity' = fsv
       /\ useCompOs' = use
       /\ log' = log \o <<Ev("access", "fs-verity", Bool(fsv))>>
                    \o (IF kUseCompOs /\ fsv
                        THEN <<Ev("compOsPresent", "", Bool(present))>> ELSE <<>>)
                    \o (IF kUseCompOs /\ fsv /\ present
                        THEN <<Ev("isDebugBuild", "", Bool(debug))>> ELSE <<>>)
       /\ pc' = IF fsv THEN "rootcert" ELSE AfterRootTrust(use)
  /\ UNCHANGED <<exitCode, scope_guard, dirs, certs, manifest, props,
                 odrefresh_status, digests_verified, compos_key, digests>>

\* Mutant of verifyExistingRootCert: any certificate file is accepted.
verifyExistingRootCert_AnyCert(cert, pkOk) == cert.kind = "x509"

\* verifyExistingRootCert: the file exists, the key's public key is
\* available, the certificate's public key can be extracted and equals it.
verifyExistingRootCert(cert, pkOk) ==
  /\ cert.kind # "none"
  /\ pkOk
  /\ cert.kind = "x509"
  /\ cert.pub = SigningPub

\* main, lines 559-572: verify the root certificate, create a new one if
\* that fails.
main_rootcert ==
  /\ pc = "rootcert"
  /\ \E cert \in OnDisk(rootCert, BootRootCerts), pkOk \in BOOLEAN, createOk \in BOOLEAN :
       LET existing == verifyExistingRootCert(cert, pkOk)
           lg1 == Append(log, Ev("verifyExistingRootCert", "", Ok(existing)))
           lg2 == Append(lg1, Ev("createX509RootCert", "", Ok(createOk)))
       IN
       IF existing
       THEN /\ pc' = "rootcert_add"
            /\ log' = lg1
            /\ rootCert' = cert
            /\ UNCHANGED <<exitCode, scope_guard, dirs, props>>
       ELSE IF ~createOk
       THEN /\ Return("-1", scope_guard, artDir, pendingDir, props, lg2)
            /\ rootCert' = cert
       ELSE /\ pc' = "rootcert_add"
            /\ rootCert' = X509(SigningPub, SigningPub, "ODS")
            /\ log' = lg2
            /\ UNCHANGED <<exitCode, scope_guard, dirs, props>>
  /\ UNCHANGED <<composCert, manifest, locals>>

\* Mutant of RootCertAddFatal: main goes on without the registration.
RootCertAddFatal_Ignored(ok) == FALSE

\* main, lines 574-578: a failed registration of the root certificate ends
\* the run.
RootCertAddFatal(ok) == ~ok

\* main, lines 573-579: addCertToFsVerityKeyring(kSigningKeyCert, "fsv_ods").
main_rootcert_add ==
  /\ pc = "rootcert_add"
  /\ \E ok \in BOOLEAN :
       LET lg == Append(log, Ev("addCertToFsVerityKeyring", "fsv_ods", Ok(ok))) IN
       IF RootCertAddFatal(ok)
       THEN Return("-1", scope_guard, artDir, pendingDir, props, lg)
       ELSE /\ pc' = AfterRootTrust(useCompOs)
            /\ log' = lg
            /\ UNCHANGED <<exitCode, scope_guard, dirs, props>>
  /\ UNCHANGED <<certs, manifest, locals>>

\* ------------------------------------------------------------------ verifyCompOsKey
\* startCompOsAndVerifyKey: the key file must be readable, then
\* compos_verify_key must exit 0.
startCompOsAndVerifyKey(readable, result) == readable /\ result = 0

\* What startCompOsAndVerifyKey adds to the log: the subprocess is run
\* only if the key file is readable.
VerifierEvents(instance, readable, result) ==
  IF readable
  THEN <<Ev("compos_verify_key", instance, IF result = 0 THEN "0" ELSE "nonzero")>>
  ELSE <<>>

\* Mutant of AfterPendingAttestation: the cached certificate is skipped.
AfterPendingAttestation_SkipCached(verified) ==
  IF verified THEN "vck_readkey" ELSE "vck_current"

\* verifyCompOsKey, lines 234-238: a verified pending key skips the cached
\* certificate and the current instance.
AfterPendingAttestation(verified) == IF verified THEN "vck_readkey" ELSE "vck_cached"

verifyCompOsKey_pending ==
  /\ pc = "vck_pending"
  /\ \E readable \in BOOLEAN, result \in {0, 1} :
       /\ log' = log \o VerifierEvents("pending", readable, result)
       /\ pc' = AfterPendingAttestation(startCompOsAndVerifyKey(readable, result))
  /\ UNCHANGED <<exitCode, scope_guard, dirs, certs, manifest, props, locals>>

\* extractRsaPublicKeyFromLeafCert: the certificate exists, verifies under
\* the signing key's public key and carries the expected CN.
extractRsaPublicKeyFromLeafCert(cert, pkOk, expectedCn) ==
  /\ cert.kind # "none"
  /\ pkOk
  /\ cert.kind = "x509" /\ cert.signer = SigningPub
  /\ cert.cn = expectedCn

\* Mutant of AfterCachedCert: without a cached certificate the pending
\* instance is asked again.
AfterCachedCert_RetryPending(ok) == IF ok THEN "compos_add" ELSE "vck_pending"

\* Mutant of AfterCachedCert: a valid cached certificate does not return.
AfterCachedCert_FallThrough(ok) == "vck_current"

\* verifyCompOsKey, lines 241-248: a valid cached certificate returns its key
\* at once.
AfterCachedCert(ok) == IF ok THEN "compos_add" ELSE "vck_current"

verifyCompOsKey_cached ==
  /\ pc = "vck_cached"
  /\ \E cert \in OnDisk(composCert, BootCompOsCerts), pkOk \in BOOLEAN :
       LET ok == extractRsaPublicKeyFromLeafCert(cert, pkOk, kCompOsSubjectCn) IN
       /\ log' = Append(log, Ev("extractRsaPublicKeyFromLeafCert", "compos_key.cert", Ok(ok)))
       /\ compos_key' = IF ok THEN cert.pub ELSE compos_key
       /\ composCert' = cert
       /\ pc' = AfterCachedCert(ok)
  /\ UNCHANGED <<exitCode, scope_guard, dirs, rootCert, manifest, props,
                 supportsFsVerity, useCompOs, odrefresh_status, digests_verified, digests>>

\* Mutant of AfterCurrentAttestation: without a key, main goes on to the
\* pending artifacts all the same.
AfterCurrentAttestation_Adopt(verified) == IF verified THEN "vck_readkey" ELSE "cpa_has"

\* verifyCompOsKey, lines 252-258: without any verification the call fails,
\* and main falls through to compilation (lines 586-587, 594).
AfterCurrentAttestation(verified) == IF verified THEN "vck_readkey" ELSE "compile"

verifyCompOsKey_current ==
  /\ pc = "vck_current"
  /\ \E readable \in BOOLEAN, result \in {0, 1} :
       /\ log' = log \o VerifierEvents("current", readable, result)
       /\ pc' = AfterCurrentAttestation(startCompOsAndVerifyKey(readable, result))
  /\ UNCHANGED <<exitCode, scope_guard, dirs, certs, manifest, props, locals>>

\* Mutant of AfterKeyRead: an empty key is taken for a key.
AfterKeyRead_AcceptEmpty(publicKey) == "vck_mkcert"

\* verifyCompOsKey, lines 265-268: an empty key fails the call, and main
\* falls through to compilation.
AfterKeyRead(publicKey) == IF publicKey = "" THEN "compile" ELSE "vck_mkcert"

\* verifyCompOsKey, lines 262-266: the current public key file; an unreadable
\* file reads as empty (readBytesFromFile ignores ReadFileToString's result).
verifyCompOsKey_readkey ==
  /\ pc = "vck_readkey"
  /\ \E content \in CompOsKeys \cup {""} :
       /\ log' = Append(log, Ev("readBytesFromFile", "current/key.pubkey", content))
       /\ compos_key' = content
       /\ pc' = AfterKeyRead(content)
  /\ UNCHANGED <<exitCode, scope_guard, dirs, certs, manifest, props,
                 supportsFsVerity, useCompOs, odrefresh_status, digests_verified, digests>>

\* Mutant of KeyAfterLeafCert: the key is returned whatever became of the
\* certificate.
KeyAfterLeafCert_KeepKey(certOk, key) == key

\* verifyCompOsKey, lines 276-282: what the call returns after
\* createLeafCertificate: the key on success, an error otherwise.
KeyAfterLeafCert(certOk, key) == IF certOk THEN key ELSE ""

\* verifyCompOsKey, lines 271-282: createLeafCertificate over the key read.
verifyCompOsKey_mkcert ==
  /\ pc = "vck_mkcert"
  /\ \E certOk \in BOOLEAN :
       LET ret == KeyAfterLeafCert(certOk, compos_key) IN
       /\ log' = Append(log, Ev("createLeafCertificate", compos_key, Ok(certOk)))
       /\ composCert' = IF certOk THEN X509(compos_key, SigningPub, kCompOsSubjectCn)
                        ELSE composCert
       /\ compos_key' = ret
       /\ pc' = IF ret = "" THEN "compile" ELSE "compos_add"
  /\ UNCHANGED <<exitCode, scope_guard, dirs, rootCert, manifest, props,
                 supportsFsVerity, useCompOs, odrefresh_status, digests_verified, digests>>

\* addCompOsCertToFsVerityKeyring, lines 446-454: register kCompOsCert; on
\* failure unlink it (best effort) and fail.
addCompOsCertToFsVerityKeyring ==
  /\ pc = "compos_add"
  /\ \E ok \in BOOLEAN, unlinked \in BOOLEAN :
       /\ ok => unlinked   \* unlink is reached only on failure
       /\ log' = log \o <<Ev("addCertToFsVerityKeyring", "fsv_compos", Ok(ok))>>
                    \o (IF ok THEN <<>> ELSE <<Ev("unlink", "compos_key.cert", Ok(unlinked))>>)
       /\ composCert' = IF ~ok /\ unlinked THEN NoCert ELSE composCert
       /\ compos_key' = IF ok THEN compos_key ELSE ""
       /\ pc' = IF ok THEN "cpa_has" ELSE "compile"
  /\ UNCHANGED <<exitCode, scope_guard, dirs, rootCert, manifest, props,
                 supportsFsVerity, useCompOs, odrefresh_status, digests_verified, digests>>

\* ------------------------------------------------------------------ odrefresh, digests, manifest
\* What odrefresh may leave of the artifacts directory: --check validates
\* and may remove it (comment at lines 600-602); compilation also may leave
\* a new generation of artifacts, all or some of its files.
OdrefreshCheckDirs(d) == {d, NoDir}
OdrefreshCompileDirs(d) == {d, NoDir} \cup {Dir(f) : f \in SUBSET FullMap(NumDigests)}

CompileFlag(force) == IF force THEN "--force-compile" ELSE "--compile"

\* Mutant of MainAfterStatus: main compiles whatever the status.
MainAfterStatus_AlwaysCompile(status) == "compile"

\* main, line 594: only CompilationRequired leads to compileArtifacts.
MainAfterStatus(status) == IF status = "CompilationRequired" THEN "compile" ELSE "outcome"

\* verifyDigests, lines 312-321: the loop over the computed map, in key
\* order; the first path that is not trusted, or is trusted with another
\* digest, ends it with an error.
RECURSIVE verifyDigestsFrom(_, _)
verifyDigestsFrom(rest, trusted_digests) ==
  IF rest = {} THEN TRUE
  ELSE LET path_digest == CHOOSE x \in rest : \A y \in rest : x[1] <= y[1]
           path == path_digest[1]
           digest == path_digest[2]
       IN IF Cardinality({t \in trusted_digests : t[1] = path}) = 0 THEN FALSE
          ELSE IF (CHOOSE t \in trusted_digests : t[1] = path)[2] # digest THEN FALSE
          ELSE verifyDigestsFrom(rest \ {path_digest}, trusted_digests)

\* Mutant of verifyDigests: only the presence of each path is checked.
verifyDigests_PresenceOnly(computed, trusted) ==
  \A e \in computed : \E t \in trusted : t[1] = e[1]

\* verifyDigests(digests, trusted_digests).
verifyDigests(computed, trusted) == verifyDigestsFrom(computed, trusted)

\* verifySignature(data, signature, publicKey).
verifySignature(data, sig, pub) == sig.signer = pub /\ sig.over = data

\* getOdsignInfo: both files readable and the signature verifies over the
\* data file's bytes; then the data is parsed.
getOdsignInfoOk(info, sig) ==
  /\ sig.exists
  /\ info.exists
  /\ verifySignature(info.bytes, sig, SigningPub)

getOdsignInfo(info, sig) == Parse(info.bytes)

\* persistDigests(m, key): the outcomes.  The data file is truncated and
\* written; a failure there leaves it unchanged (not opened) or with a
\* prefix of the bytes.  Then the bytes are signed; a failure leaves the old
\* signature beside the new data.  The result of writing the signature is
\* ignored: WriteStringToFile may fail leaving the old file or none.
\* step is how far the call got: "serialize" (failed there), "sign" (failed
\* there), "write" (returned success; sigWritten tells whether the signature
\* file was written).
persistDigests(m, info, sig) ==
  LET sers == Serializations(m) IN
  {[ok |-> FALSE, step |-> "serialize", sigWritten |-> FALSE, info |-> i, sig |-> sig] :
     i \in {info} \cup {File(SubSeq(s, 1, k)) : s \in sers, k \in 0..(Cardinality(m) - 1)}}
  \cup {[ok |-> FALSE, step |-> "sign", sigWritten |-> FALSE, info |-> File(s), sig |-> sig] :
          s \in sers}
  \cup {[ok |-> TRUE, step |-> "write", sigWritten |-> TRUE, info |-> File(s),
          sig |-> Sig(SigningPub, s)] : s \in sers}
  \cup {[ok |-> TRUE, step |-> "write", sigWritten |-> FALSE, info |-> File(s), sig |-> g] :
          s \in sers, g \in {sig, NoSig}}

\* What persistDigests adds to the log; caller is "cpa"
\* (checkCompOsPendingArtifacts) or "main".
PersistEvents(r, caller) ==
  (IF r.step # "serialize"
   THEN <<Ev("key.sign", "odsign.info", Ok(r.step = "write"))>> ELSE <<>>)
  \o (IF r.step = "write"
      THEN <<Ev("WriteStringToFile", "odsign.info.signature", Ok(r.sigWritten))>> ELSE <<>>)
  \o <<Ev("persistDigests", caller, Ok(r.ok))>>

\* ------------------------------------------------------------------ checkCompOsPendingArtifacts
\* lines 460-462.
checkCompOsPendingArtifacts_has ==
  /\ pc = "cpa_has"
  /\ \E isEmptyError \in BOOLEAN :
       LET has == DirectoryHasContent(pendingDir, isEmptyError) IN
       /\ log' = Append(log, Ev("directoryHasContent", "pending", Bool(has)))
       /\ odrefresh_status' = IF has THEN odrefresh_status ELSE "CompilationRequired"
       /\ pc' = IF has THEN "cpa_check1" ELSE MainAfterStatus("CompilationRequired")
  /\ UNCHANGED <<exitCode, scope_guard, dirs, certs, manifest, props,
                 supportsFsVerity, useCompOs, digests_verified, compos_key, digests>>

\* Mutant of ReturnsAfterFirstCheck: Okay current artifacts do not stop the
\* adoption of the pending ones.
ReturnsAfterFirstCheck_AdoptAnyway(code) == code \notin {"CompilationRequired", "Okay"}

\* line 468: any result of the first --check but CompilationRequired is
\* returned at once.
ReturnsAfterFirstCheck(code) == code # "CompilationRequired"

\* lines 467-474: the first --check; the pending directory is removed when
\* the current artifacts are Okay.
checkCompOsPendingArtifacts_check ==
  /\ pc = "cpa_check1"
  /\ \E code \in ExitCodes, a \in OdrefreshCheckDirs(artDir) :
       LET lg == Append(log, Ev("odrefresh", "--check", code)) IN
       /\ artDir' = a
       /\ IF ReturnsAfterFirstCheck(code)
          THEN /\ \E p \in (IF code = "Okay" THEN RemoveDirectory(pendingDir)
                            ELSE {pendingDir}) :
                    /\ pendingDir' = p
                    /\ log' = IF code = "Okay" THEN Append(lg, RemoveEvent("pending", p))
                              ELSE lg
               /\ odrefresh_status' = code
               /\ pc' = MainAfterStatus(code)
          ELSE /\ log' = lg
               /\ pc' = "cpa_promote"
               /\ UNCHANGED <<pendingDir, odrefresh_status>>
  /\ UNCHANGED <<exitCode, scope_guard, certs, manifest, props,
                 supportsFsVerity, useCompOs, digests_verified, compos_key, digests>>

\* Mutant of StatusAfterRenameFailure: a failed rename reports Okay.
StatusAfterRenameFailure_Okay == "Okay"

\* lines 479-482: what checkCompOsPendingArtifacts returns when the rename
\* failed.
StatusAfterRenameFailure == "CompilationRequired"

\* lines 478-482: remove the current artifacts, rename the pending directory
\* into their place.
checkCompOsPendingArtifacts_promote ==
  /\ pc = "cpa_promote"
  /\ \E a \in RemoveDirectory(artDir), renamed \in BOOLEAN :
       LET lg == Append(Append(log, RemoveEvent("art", a)),
                        Ev("rename", "pending->art", Ok(renamed))) IN
       /\ renamed => RenameCanSucceed(pendingDir, a)
       /\ IF renamed
          THEN /\ artDir' = pendingDir
               /\ pendingDir' = NoDir
               /\ log' = lg
               /\ pc' = "cpa_check2"
               /\ UNCHANGED odrefresh_status
          ELSE /\ artDir' = a
               /\ \E p \in RemoveDirectory(pendingDir) :
                    /\ pendingDir' = p
                    /\ log' = Append(lg, RemoveEvent("pending", p))
               /\ odrefresh_status' = StatusAfterRenameFailure
               /\ pc' = MainAfterStatus(StatusAfterRenameFailure)
  /\ UNCHANGED <<exitCode, scope_guard, certs, manifest, props,
                 supportsFsVerity, useCompOs, digests_verified, compos_key, digests>>

\* lines 487-491: the second --check, of the promoted artifacts.
checkCompOsPendingArtifacts_recheck ==
  /\ pc = "cpa_check2"
  /\ \E code \in ExitCodes, a \in OdrefreshCheckDirs(artDir) :
       /\ log' = Append(log, Ev("odrefresh", "--check", code))
       /\ artDir' = a
       /\ IF code # "Okay"
          THEN /\ odrefresh_status' = code
               /\ pc' = MainAfterStatus(code)
          ELSE /\ pc' = "cpa_verify"
               /\ UNCHANGED odrefresh_status
  /\ UNCHANGED <<exitCode, scope_guard, pendingDir, certs, manifest, props,
                 supportsFsVerity, useCompOs, digests_verified, compos_key, digests>>

\* lines 495-496, 511-518: verifyAllFilesUsingCompOs measures the files of
\* the artifacts directory under the CompOs key.
checkCompOsPendingArtifacts_verify ==
  /\ pc = "cpa_verify"
  /\ \E ok \in BOOLEAN :
       LET lg == Append(log, Ev("verifyAllFilesUsingCompOs", compos_key, Ok(ok))) IN
       /\ ok => artDir.exists
       /\ IF ok
          THEN /\ digests' = artDir.files
               /\ log' = lg
               /\ pc' = "cpa_persist"
               /\ UNCHANGED <<artDir, odrefresh_status>>
          ELSE /\ \E a \in RemoveDirectory(artDir) :
                    /\ artDir' = a
                    /\ log' = Append(lg, RemoveEvent("art", a))
               /\ odrefresh_status' = "CompilationRequired"
               /\ pc' = MainAfterStatus("CompilationRequired")
               /\ UNCHANGED digests
  /\ UNCHANGED <<exitCode, scope_guard, pendingDir, certs, manifest, props,
                 supportsFsVerity, useCompOs, digests_verified, compos_key>>

\* Mutant of AdoptionAccepted: verified artifacts are accepted although the
\* manifest was not persisted.
AdoptionAccepted_IgnorePersist(verifiedOk, persistedOk) == verifiedOk

\* lines 498, 504: the promoted artifacts are accepted when digests.ok()
\* and persisted.ok().
AdoptionAccepted(verifiedOk, persistedOk) == verifiedOk /\ persistedOk

\* lines 498-518: persist the digests, declare the key done, and accept the
\* artifacts only if the manifest was persisted.
checkCompOsPendingArtifacts_persist ==
  /\ pc = "cpa_persist"
  /\ \E r \in persistDigests(digests, infoFile, sigFile) :
       LET lg == Append(log \o PersistEvents(r, "cpa"),
                        Ev("SetProperty", "odsign.key.done", "1")) IN
       /\ infoFile' = r.info
       /\ sigFile' = r.sig
       /\ props' = [props EXCEPT !.keyDone = "1"]
       /\ IF AdoptionAccepted(TRUE, r.ok)
          THEN /\ digests_verified' = TRUE
               /\ odrefresh_status' = "Okay"
               /\ log' = lg
               /\ pc' = MainAfterStatus("Okay")
               /\ UNCHANGED artDir
          ELSE /\ \E a \in RemoveDirectory(artDir) :
                    /\ artDir' = a
                    /\ log' = Append(lg, RemoveEvent("art", a))
               /\ odrefresh_status' = "CompilationRequired"
               /\ pc' = MainAfterStatus("CompilationRequired")
               /\ UNCHANGED digests_verified
  /\ UNCHANGED <<exitCode, scope_guard, pendingDir, certs,
                 supportsFsVerity, useCompOs, compos_key, digests>>

\* ------------------------------------------------------------------ main, continued
\* main, lines 594-596: compileArtifacts(kForceCompilation).
main_compile ==
  /\ pc = "compile"
  /\ \E code \in ExitCodes, a \in OdrefreshCompileDirs(artDir) :
       /\ log' = Append(log, Ev("odrefresh", CompileFlag(kForceCompilation), code))
       /\ artDir' = a
       /\ odrefresh_status' = code
       /\ pc' = "outcome"
  /\ UNCHANGED <<exitCode, scope_guard, pendingDir, certs, manifest, props,
                 supportsFsVerity, useCompOs, digests_verified, compos_key, digests>>

\* access(kArtArtifactsDir, F_OK): the results the directory allows.
AccessResults(d) == IF d.exists THEN {"0", "EOTHER"} ELSE {"ENOENT", "EOTHER"}

\* Mutant of ArtifactsPresent: any failure of access counts as absent.
ArtifactsPresent_OnlyZero(err) == err = "0"

\* main, line 605: present unless access failed with ENOENT.
ArtifactsPresent(err) == err = "0" \/ err # "ENOENT"

\* Mutant of NeedsVerification: Okay artifacts are never verified.
NeedsVerification_Never(verified, err) == FALSE

\* main, lines 599, 606: whether the Okay branch runs verifyArtifacts.
NeedsVerification(verified, err) == ~verified /\ ArtifactsPresent(err)

\* getOdsignInfo's outcomes.  A missing file is an error.  Line 365 takes
\* key.getPublicKey() and line 366 dereferences the Result without asking
\* ok(): when the key has no public key to give, the dereference aborts the
\* process or hands verifySignature a value that is no key, which verifies
\* nothing.  Otherwise the signature decides.
getOdsignInfoOutcomes(info, sig, pkOk) ==
  IF ~(sig.exists /\ info.exists) THEN {"error"}
  ELSE IF ~pkOk THEN {"abort", "error"}
  ELSE IF verifySignature(info.bytes, sig, SigningPub) THEN {"ok"}
  ELSE {"error"}

\* std::abort: the process dies where it stands; no destructor runs.
Abort(lg) ==
  /\ pc' = "aborted"
  /\ exitCode' = "SIGABRT"
  /\ log' = lg
  /\ UNCHANGED <<scope_guard, dirs, props>>

\* main, lines 597-613: odrefresh said Okay.  verifyArtifacts loads the
\* manifest, declares the key done, measures the files (fs-verity or
\* computeDigests) and compares them with the trusted digests.
main_okay ==
  /\ pc = "outcome"
  /\ odrefresh_status = "Okay"
  /\ \E err \in AccessResults(artDir), measured \in BOOLEAN, pkOk \in BOOLEAN :
     \E mf \in IF NeedsVerification(digests_verified, err)
                THEN ManifestOnDisk(infoFile, sigFile) ELSE {manifest} :
     \E info \in IF NeedsVerification(digests_verified, err)
                  THEN getOdsignInfoOutcomes(mf[1], mf[2], pkOk) ELSE {"unread"} :
       LET infoOk == info = "ok"
           trusted == getOdsignInfo(mf[1], mf[2])
           verified == infoOk /\ measured /\ verifyDigests(artDir.files, trusted)
           lg1 == IF digests_verified THEN log ELSE Append(log, Ev("access", "art", err))
           lg2 == lg1 \o <<Ev("getOdsignInfo", "", info),
                           Ev("SetProperty", "odsign.key.done", "1")>>
                      \o (IF infoOk
                          THEN <<Ev(IF supportsFsVerity THEN "verifyAllFilesInVerity"
                                    ELSE "computeDigests", "art", Ok(measured))>>
                          ELSE <<>>)
                      \o (IF infoOk /\ measured
                          THEN <<Ev("verifyDigests", "", Ok(verified))>> ELSE <<>>)
                      \o <<Ev("verifyArtifacts", "", Ok(verified))>>
       IN
       /\ measured => artDir.exists
       /\ IF ~NeedsVerification(digests_verified, err)
          THEN /\ pc' = "finalize"
               /\ log' = lg1
               /\ UNCHANGED <<exitCode, scope_guard, dirs, props>>
          ELSE IF info = "abort"
          THEN Abort(Append(lg1, Ev("getOdsignInfo", "", info)))
          ELSE IF verified
          THEN /\ pc' = "finalize"
               /\ log' = lg2
               /\ props' = [props EXCEPT !.keyDone = "1"]
               /\ UNCHANGED <<exitCode, scope_guard, dirs>>
          ELSE Return("-1", scope_guard, artDir, pendingDir,
                      [props EXCEPT !.keyDone = "1"], lg2)
       /\ infoFile' = mf[1]
       /\ sigFile' = mf[2]
  /\ UNCHANGED <<certs, locals>>

\* main, lines 614-635: odrefresh compiled; measure the files
\* (addFilesToVerityRecursive or computeDigests) and persist the digests.
main_compiled ==
  /\ pc = "outcome"
  /\ odrefresh_status \in {"CompilationSuccess", "CompilationFailed"}
  /\ \E measured \in BOOLEAN, r \in persistDigests(artDir.files, infoFile, sigFile) :
       LET lg1 == Append(log, Ev(IF supportsFsVerity THEN "addFilesToVerityRecursive"
                                 ELSE "computeDigests", "art", Ok(measured)))
           lg2 == lg1 \o PersistEvents(r, "main")
       IN
       /\ measured => artDir.exists
       /\ IF ~measured
          THEN /\ Return("-1", scope_guard, artDir, pendingDir, props, lg1)
               /\ UNCHANGED manifest
          ELSE /\ infoFile' = r.info
               /\ sigFile' = r.sig
               /\ IF ~r.ok
                  THEN Return("-1", scope_guard, artDir, pendingDir, props, lg2)
                  ELSE /\ pc' = "finalize"
                       /\ log' = lg2
                       /\ UNCHANGED <<exitCode, scope_guard, dirs, props>>
  /\ UNCHANGED <<certs, locals>>

\* main, lines 636-642: CleanupFailed, or any other exit code.
main_fatal ==
  /\ pc = "outcome"
  /\ odrefresh_status \notin {"Okay", "CompilationSuccess", "CompilationFailed"}
  /\ Return("-1", scope_guard, artDir, pendingDir, props,
            Append(log, Ev("LOG(ERROR)", "odrefresh", odrefresh_status)))
  /\ UNCHANGED <<certs, manifest, locals>>

\* main, lines 648-654: the property writes of the success path.
SuccessProps(pr) ==
  [pr EXCEPT !.keyDone = "1",
             !.verificationStatus = kOdsignVerificationStatusValid,
             !.verificationDone = "1",
             !.stopService = "odsign"]

SuccessEvents ==
  <<Ev("scope_guard.Disable", "", ""),
    Ev("SetProperty", "odsign.key.done", "1"),
    Ev("SetProperty", "odsign.verification.success", kOdsignVerificationStatusValid),
    Ev("SetProperty", "odsign.verification.done", "1"),
    Ev("SetProperty", "ctl.stop", "odsign")>>

\* Mutant of Disable: the guard stays enabled.
Disable_Forgotten(enabled) == enabled

\* main, line 646: scope_guard.Disable().
Disable(enabled) == FALSE

\* main, lines 644-655: disable the guard, announce success, return 0.
main_finalize ==
  /\ pc = "finalize"
  /\ Return("0", Disable(scope_guard), artDir, pendingDir, SuccessProps(props),
            log \o SuccessEvents)
  /\ UNCHANGED <<certs, manifest, locals>>

Next ==
  \/ main_applicability
  \/ main_keystore
  \/ main_fsverity
  \/ main_rootcert
  \/ main_rootcert_add
  \/ verifyCompOsKey_pending
  \/ verifyCompOsKey_cached
  \/ verifyCompOsKey_current
  \/ verifyCompOsKey_readkey
  \/ verifyCompOsKey_mkcert
  \/ addCompOsCertToFsVerityKeyring
  \/ checkCompOsPendingArtifacts_has
  \/ checkCompOsPendingArtifacts_check
  \/ checkCompOsPendingArtifacts_promote
  \/ checkCompOsPendingArtifacts_recheck
  \/ checkCompOsPendingArtifacts_verify
  \/ checkCompOsPendingArtifacts_persist
  \/ main_compile
  \/ main_okay
  \/ main_compiled
  \/ main_fatal
  \/ main_finalize

Spec == Init /\ [][Next]_vars

\* ------------------------------------------------------------------ verifyDigests on its own
\* verifyDigests applied to every pair of maps: digests holds the computed
\* map, the manifest data file the trusted one.
VerifyMaps ==
  {m \in SUBSET ((1..VerifyPaths) \X (1..VerifyDigestValues)) :
     \A e1 \in m, e2 \in m : e1[1] = e2[1] => e1 = e2}

InitVerifyDigests ==
  /\ pc = "verifyDigests"
  /\ digests \in VerifyMaps
  /\ infoFile \in {File(SerializeInOrder(m)) : m \in VerifyMaps}
  /\ sigFile = Sig(SigningPub, infoFile.bytes)
  /\ exitCode = "running"
  /\ scope_guard = TRUE
  /\ artDir = Dir(digests)
  /\ pendingDir = NoDir
  /\ rootCert = NoCert
  /\ composCert = NoCert
  /\ props = NoProps
  /\ supportsFsVerity = FALSE
  /\ useCompOs = FALSE
  /\ odrefresh_status = "Okay"
  /\ digests_verified = FALSE
  /\ compos_key = ""
  /\ log = <<>>

\* verifyIntegrityNoFsVerity, line 347: verifyDigests(*result, trusted_digests).
verifyIntegrityNoFsVerity ==
  /\ pc = "verifyDigests"
  /\ log' = Append(log, Ev("verifyDigests", "",
                           Ok(verifyDigests(digests, getOdsignInfo(infoFile, sigFile)))))
  /\ pc' = "verified"
  /\ UNCHANGED <<exitCode, scope_guard, dirs, certs, manifest, props, locals>>

NextVerifyDigests == verifyIntegrityNoFsVerity

SpecVerifyDigests == InitVerifyDigests /\ [][NextVerifyDigests]_vars

\* ------------------------------------------------------------------ reading the log
LogHas(op, arg) == \E i \in DOMAIN log : log[i][1] = op /\ log[i][2] = arg
LogHasRes(op, arg, res) == \E i \in DOMAIN log : log[i] = Ev(op, arg, res)
LogHasOp(op) == \E i \in DOMAIN log : log[i][1] = op
LogHasOpRes(op, res) == \E i \in DOMAIN log : log[i][1] = op /\ log[i][3] = res
LogCount(op, arg) == Cardinality({i \in DOMAIN log : log[i][1] = op /\ log[i][2] = arg})
LastEvent == IF log = <<>> THEN Ev("", "", "") ELSE log[Len(log)]

Exited == pc = "done"
GuardRuns == LogCount("errorScopeGuard", "")
Disabled == LogHas("scope_guard.Disable", "")
ErrorSignals ==
  /\ props.verificationStatus = kOdsignVerificationStatusError
  /\ props.verificationDone = "1"
  /\ props.keyDone = "1"
  /\ props.stopService = "odsign"

\* The log ends with errorScopeGuard's entries, and a directory whose removal
\* reported no error is gone.
RollbackRan ==
  LET n == Len(log) IN
  /\ n >= 7
  /\ log[n - 6] = Ev("errorScopeGuard", "", "")
  /\ log[n - 5][1] = "removeDirectory" /\ log[n - 5][2] = "art"
  /\ log[n - 4][1] = "removeDirectory" /\ log[n - 4][2] = "pending"
  /\ (log[n - 5][3] = "ok" => ~artDir.exists)
  /\ (log[n - 4][3] = "ok" => ~pendingDir.exists)
  /\ log[n] = Ev("SetProperty", "ctl.stop", "odsign")

\* ------------------------------------------------------------------ C1
\* C1 as stated: a run of main that exits nonzero ends with both artifact
\* directories removed and the error signals set.
C1_Original ==
  (Exited /\ exitCode # "0") =>
     /\ ~artDir.exists
     /\ ~pendingDir.exists
     /\ ErrorSignals

\* C1, amended: a run of main that exits nonzero has run the rollback just
\* before exiting: removeDirectory was applied to both artifact directories
\* (each is gone unless remove_all reported an error, which is logged and
\* ignored), verification-success is "0", verification-done and key-done are
\* "1", and the stop-service request was issued.
C1_RollbackBeforeNonzeroExit ==
  (Exited /\ exitCode # "0") =>
     /\ GuardRuns = 1
     /\ RollbackRan
     /\ ErrorSignals

C1_Witness ==
  /\ Exited
  /\ exitCode = "-1"
  /\ LogHasRes("odrefresh", "--compile", "CleanupFailed")
  /\ LogHasRes("removeDirectory", "art", "ok")
  /\ artDir = NoDir
  /\ pendingDir = NoDir
  /\ ErrorSignals

\* ------------------------------------------------------------------ C2
ValidSet == props.verificationStatus = kOdsignVerificationStatusValid

OkayAccepted ==
  /\ odrefresh_status = "Okay"
  /\ \/ digests_verified /\ LogHasRes("persistDigests", "cpa", "ok")
     \/ LogHasRes("access", "art", "ENOENT")
     \/ LogHasRes("getOdsignInfo", "", "ok") /\ LogHasRes("verifyArtifacts", "", "ok")

CompiledAccepted ==
  /\ odrefresh_status \in {"CompilationSuccess", "CompilationFailed"}
  /\ \/ LogHasRes("addFilesToVerityRecursive", "art", "ok")
     \/ LogHasRes("computeDigests", "art", "ok")
  /\ LogHasRes("persistDigests", "main", "ok")

\* A failed step of main's outcome handling (lines 597-635).
FailedOutcomeStep ==
  \/ LogHasRes("verifyArtifacts", "", "error")
  \/ LogHasRes("addFilesToVerityRecursive", "art", "error")
  \/ LogHasRes("computeDigests", "art", "error")
  \/ LogHasRes("persistDigests", "main", "error")

\* A failed verification or persistence step anywhere in the run.
FailedAnyStep ==
  \/ FailedOutcomeStep
  \/ LogHasOpRes("verifyAllFilesUsingCompOs", "error")
  \/ LogHasRes("persistDigests", "cpa", "error")

\* C2 as stated: verification-success is "1" only at the end of a run whose
\* final outcome was accepted, and never after any failed verification or
\* persistence step.
C2_Original ==
  ValidSet =>
     /\ Exited /\ exitCode = "0"
     /\ OkayAccepted \/ CompiledAccepted
     /\ ~FailedAnyStep

\* C2, amended: verification-success is "1" only at the end of a run whose
\* final outcome was Okay (digests verified by the adoption, or no artifacts
\* directory, or verifyArtifacts succeeded against the signature-verified
\* manifest) or CompilationSuccess/CompilationFailed with digests computed
\* and persisted; never for another code, never after a failed step of
\* main's outcome handling.  (A failed CompOs verification or persistDigests
\* inside checkCompOsPendingArtifacts falls back to compilation, after which
\* the valid value may still be set.)
C2_ValidOnlyAfterAcceptance ==
  ValidSet =>
     /\ Exited /\ exitCode = "0"
     /\ OkayAccepted \/ CompiledAccepted
     /\ ~FailedOutcomeStep

C2_Witness ==
  /\ ValidSet
  /\ odrefresh_status = "Okay"
  /\ ~digests_verified
  /\ LogHasRes("access", "art", "0")
  /\ LogHasRes("verifyArtifacts", "", "ok")

\* ------------------------------------------------------------------ C3
\* C3: errorScopeGuard runs exactly once on every exit of main but the
\* full-success one, never before the exit; the guard is disabled only in
\* the finalization after an outcome that was handled without a fatal
\* condition, and then errorScopeGuard does not run.
C3_GuardExactlyOnce ==
  /\ ~Exited => (GuardRuns = 0 /\ ~Disabled /\ scope_guard)
  /\ Exited =>
       IF Disabled
       THEN /\ GuardRuns = 0
            /\ LogCount("scope_guard.Disable", "") = 1
            /\ exitCode = "0"
            /\ ~scope_guard
            /\ odrefresh_status \in {"Okay", "CompilationSuccess", "CompilationFailed"}
            /\ ~FailedOutcomeStep
       ELSE /\ GuardRuns = 1
            /\ RollbackRan

C3_Witness ==
  /\ Exited
  /\ exitCode = "-1"
  /\ LogHasRes("persistDigests", "main", "error")
  /\ GuardRuns = 1
  /\ ~Disabled

\* ------------------------------------------------------------------ C4
\* C4: when ro.apex.updatable is false main exits 0 having done nothing
\* else: no key, no certificate, no subprocess, the artifact directories
\* untouched, verification-success not set to the error value.
C4_EarlyExitTouchesNothing ==
  (Exited /\ LogHasRes("GetBoolProperty", "ro.apex.updatable", "false")) =>
     /\ exitCode = "0"
     /\ Len(log) = 1
     /\ ~LogHasOp("removeDirectory")
     /\ props.verificationStatus # kOdsignVerificationStatusError

\* ------------------------------------------------------------------ C5
\* The first --check of checkCompOsPendingArtifacts, made because the pending
\* directory has content, is entry i + 1 of the log and returned code.
FirstCheckAt(i, code) ==
  /\ i + 1 \in DOMAIN log
  /\ log[i] = Ev("directoryHasContent", "pending", "true")
  /\ log[i + 1] = Ev("odrefresh", "--check", code)

FirstCheckOkay == \E i \in DOMAIN log : FirstCheckAt(i, "Okay")

\* C5 as stated: with content in the pending directory and Okay from the
\* first --check, checkCompOsPendingArtifacts returns Okay with the pending
\* directory deleted, the live directory neither removed nor replaced, and
\* digests_verified false.
C5_Original ==
  (pc = "outcome" /\ FirstCheckOkay) =>
     /\ ~pendingDir.exists
     /\ ~LogHas("removeDirectory", "art")
     /\ ~LogHasOp("rename")
     /\ odrefresh_status = "Okay"
     /\ ~digests_verified

\* C5, amended: with content in the pending directory and Okay from the
\* first --check, checkCompOsPendingArtifacts applies removeDirectory to the
\* pending directory (it is gone unless remove_all reported an error, which
\* is ignored), never removes or replaces the live directory, and returns
\* Okay with digests_verified false; the pending directory is not renamed
\* later in the run either.
C5_PendingNeverAdopted ==
  /\ (pc = "outcome" /\ FirstCheckOkay) =>
        /\ LastEvent[1] = "removeDirectory" /\ LastEvent[2] = "pending"
        /\ LastEvent[3] = "ok" => ~pendingDir.exists
        /\ ~LogHas("removeDirectory", "art")
        /\ odrefresh_status = "Okay"
        /\ ~digests_verified
  /\ FirstCheckOkay => (~LogHasOp("rename") /\ LogCount("odrefresh", "--check") = 1)

C5_Witness ==
  /\ pc = "outcome"
  /\ FirstCheckOkay
  /\ ~pendingDir.exists
  /\ artDir.exists
  /\ LogHasRes("removeDirectory", "pending", "ok")

\* ------------------------------------------------------------------ C6
CachedCertOk == Ev("extractRsaPublicKeyFromLeafCert", "compos_key.cert", "ok")
CachedCertUsed == \E i \in DOMAIN log : log[i] = CachedCertOk
PendingAttestationSucceeded == LogHasRes("compos_verify_key", "pending", "0")

\* C6: when the pending attestation did not succeed and the cached CompOs
\* certificate verifies under the signing key with the expected CN,
\* verifyCompOsKey returns the certificate's key at once: the current
\* instance is never verified, the key file is not read and no certificate
\* is written.
C6_CachedCertPath ==
  CachedCertUsed =>
     /\ ~PendingAttestationSucceeded
     /\ ~LogHas("compos_verify_key", "current")
     /\ ~LogHasOp("readBytesFromFile")
     /\ ~LogHasOp("createLeafCertificate")
     /\ pc \notin {"vck_cached", "vck_current", "vck_readkey", "vck_mkcert"}
     /\ LastEvent = CachedCertOk =>
          /\ pc = "compos_add"
          /\ compos_key \in CompOsKeys
          /\ composCert = X509(compos_key, SigningPub, kCompOsSubjectCn)

C6_Witness ==
  /\ pc = "compos_add"
  /\ LastEvent = CachedCertOk
  /\ LogHasRes("compos_verify_key", "pending", "nonzero")
  /\ compos_key = "ck1"

\* ------------------------------------------------------------------ C7
CurrentAttestationSucceeded == LogHasRes("compos_verify_key", "current", "0")
VckRunning == pc \in {"vck_pending", "vck_cached", "vck_current", "vck_readkey", "vck_mkcert"}
VckSucceeded == pc = "compos_add" \/ LogHas("addCertToFsVerityKeyring", "fsv_compos")

\* The current instance is verified only right after the cached certificate
\* failed, which comes after the pending attestation failed.
FallbackOrder ==
  \A i \in DOMAIN log :
    (log[i][1] = "compos_verify_key" /\ log[i][2] = "current") =>
       /\ i > 1
       /\ log[i - 1] = Ev("extractRsaPublicKeyFromLeafCert", "compos_key.cert", "error")
       /\ ~PendingAttestationSucceeded
       /\ \A j \in DOMAIN log :
            (log[j][1] = "compos_verify_key" /\ log[j][2] = "pending") => j = i - 2

\* C7 as stated: when the verifier fails for pending, there is no valid
\* cached certificate and the verifier succeeds for current, the steps are
\* tried in order, verifyCompOsKey succeeds and a new certificate is written.
C7_Original ==
  (CurrentAttestationSucceeded /\ ~VckRunning) =>
     /\ FallbackOrder
     /\ VckSucceeded
     /\ LogHasOpRes("createLeafCertificate", "ok")

\* C7, amended: the chain is tried strictly in the order pending
\* attestation, cached certificate, current attestation, the current
\* instance being verified only after both earlier steps failed; after a
\* successful current attestation verifyCompOsKey succeeds exactly when the
\* current public key file reads non-empty and createLeafCertificate
\* succeeds, and then a new certificate binding that key has been written.
C7_LiveCurrentPath ==
  /\ FallbackOrder
  /\ (CurrentAttestationSucceeded /\ ~VckRunning) =>
        (VckSucceeded <=>
           /\ \E k \in CompOsKeys : LogHasRes("readBytesFromFile", "current/key.pubkey", k)
           /\ LogHasOpRes("createLeafCertificate", "ok"))
  /\ (CurrentAttestationSucceeded /\ pc = "compos_add") =>
        /\ LastEvent = Ev("createLeafCertificate", compos_key, "ok")
        /\ LogHasRes("readBytesFromFile", "current/key.pubkey", compos_key)
        /\ composCert = X509(compos_key, SigningPub, kCompOsSubjectCn)

C7_Witness ==
  /\ pc = "compos_add"
  /\ CurrentAttestationSucceeded
  /\ LogHasRes("compos_verify_key", "pending", "nonzero")
  /\ composCert = X509("ck2", SigningPub, kCompOsSubjectCn)

\* ------------------------------------------------------------------ C8
LeafCertFailed == LogHasOpRes("createLeafCertificate", "error")

\* C8 as stated: after a successful attestation and a non-empty key, a
\* failure to create the certificate still has verifyCompOsKey return the
\* key, so that the adoption decision is run with it.
C8_Original ==
  (LastEvent[1] = "createLeafCertificate" /\ LastEvent[3] = "error") =>
     /\ pc = "compos_add"
     /\ compos_key = LastEvent[2]

\* C8, amended: after a successful attestation and a non-empty key, a
\* failure to create the certificate makes verifyCompOsKey fail (the error
\* is reported by main): no key is returned, the CompOs certificate is not
\* registered, the adoption decision is skipped and main compiles.
C8_LeafCertFailureFails ==
  LeafCertFailed =>
     /\ PendingAttestationSucceeded \/ CurrentAttestationSucceeded
     /\ \E k \in CompOsKeys : LogHasRes("readBytesFromFile", "current/key.pubkey", k)
     /\ compos_key = ""
     /\ ~LogHas("addCertToFsVerityKeyring", "fsv_compos")
     /\ ~LogHas("directoryHasContent", "pending")
     /\ ~LogHas("odrefresh", "--check")
     /\ pc = "compile" \/ LogHas("odrefresh", "--compile")

C8_Witness ==
  /\ pc = "compile"
  /\ LastEvent = Ev("createLeafCertificate", "ck1", "error")
  /\ PendingAttestationSucceeded
  /\ compos_key = ""

\* ------------------------------------------------------------------ C9
CompileInvoked == LogHas("odrefresh", "--compile") \/ LogHas("odrefresh", "--force-compile")
Promoted == LogHasRes("rename", "pending->art", "ok")

RenameFailedAt(i) == log[i] = Ev("rename", "pending->art", "error")
CompiledAfter(i) ==
  \E j \in DOMAIN log : j > i /\ log[j][1] = "odrefresh" /\ log[j][2] = "--compile"

\* After the failed rename the run is accepted only after a compilation, and
\* with the manifest verified or re-signed unless there is no artifacts
\* directory.
AcceptedOnlyAfterCompile(i) ==
  /\ ~digests_verified
  /\ pc = "compile" => odrefresh_status = "CompilationRequired"
  /\ pc # "compile" => CompiledAfter(i)
  /\ ValidSet =>
       \/ LogHasRes("verifyArtifacts", "", "ok")
       \/ LogHasRes("persistDigests", "main", "ok")
       \/ LogHasRes("access", "art", "ENOENT")

\* C10 as stated: when the rename fails the pending directory is deleted,
\* CompilationRequired is returned with digests_verified false, main
\* compiles, and the live directory is never accepted without a later
\* compilation and manifest verification or re-signing.
C10_Original ==
  \A i \in DOMAIN log :
    RenameFailedAt(i) => (~pendingDir.exists /\ AcceptedOnlyAfterCompile(i))

\* C10, amended: when the rename fails removeDirectory is applied to the
\* pending directory (it is gone unless remove_all reported an error, which
\* is ignored), CompilationRequired is returned with digests_verified false,
\* main compiles, and the live directory is never accepted without a later
\* compilation and manifest verification or re-signing.
C10_RenameFailureFallsBack ==
  \A i \in DOMAIN log :
    RenameFailedAt(i) =>
       /\ i + 1 \in DOMAIN log
       /\ log[i + 1][1] = "removeDirectory" /\ log[i + 1][2] = "pending"
       /\ log[i + 1][3] = "ok" => ~pendingDir.exists
       /\ AcceptedOnlyAfterCompile(i)

C10_Witness ==
  /\ ValidSet
  /\ \E i \in DOMAIN log : RenameFailedAt(i) /\ CompiledAfter(i)
  /\ LogHasRes("verifyArtifacts", "", "ok")
  /\ ~pendingDir.exists

\* ------------------------------------------------------------------ C11
RootCertRejectedAt(i) == log[i] = Ev("verifyExistingRootCert", "", "error")
RootCertFor(k) == X509(k, k, "ODS")
NoSubprocess == ~LogHasOp("odrefresh") /\ ~LogHasOp("compos_verify_key")

\* With fs-verity, the run proceeds past the root certificate step only
\* with a certificate for the signing key at the fixed path, and a rejected
\* certificate is followed at once by createX509RootCert.
RootCertBootstrapped ==
  /\ (supportsFsVerity /\ pc # "rootcert"
        /\ ~LogHasOpRes("createX509RootCert", "error")) =>
       /\ rootCert.kind = "x509" /\ rootCert.pub = SigningPub
       /\ LogHasOpRes("verifyExistingRootCert", "ok") \/ rootCert = RootCertFor(SigningPub)
  /\ \A i \in DOMAIN log :
       RootCertRejectedAt(i) =>
          /\ i + 1 \in DOMAIN log
          /\ log[i + 1][1] = "createX509RootCert"
          /\ log[i + 1][3] = "ok" => rootCert = RootCertFor(SigningPub)

\* C11 as stated: a missing, unreadable or mismatched root certificate is
\* replaced by a new self-signed one before the run proceeds; when that
\* fails the run exits nonzero with both artifact directories removed, the
\* error signals set and no compiler or verifier invocation.
C11_Original ==
  /\ RootCertBootstrapped
  /\ LogHasOpRes("createX509RootCert", "error") =>
       /\ Exited /\ exitCode = "-1"
       /\ ~artDir.exists /\ ~pendingDir.exists
       /\ ErrorSignals
       /\ NoSubprocess

\* C11, amended: as stated, except that on the failed creation the rollback
\* applies removeDirectory to both artifact directories, each being gone
\* unless remove_all reported an error.
C11_RootCertBootstrap ==
  /\ RootCertBootstrapped
  /\ LogHasOpRes("createX509RootCert", "error") =>
       /\ Exited /\ exitCode = "-1"
       /\ GuardRuns = 1 /\ RollbackRan
       /\ ErrorSignals
       /\ NoSubprocess

C11_Witness ==
  /\ Exited /\ exitCode = "-1"
  /\ rootCert = RootCertFor(StalePub)
  /\ LogHasOpRes("createX509RootCert", "error")
  /\ ~artDir.exists /\ ~pendingDir.exists

\* ------------------------------------------------------------------ C12
\* The map given to the persistDigests call that succeeded: the digests
\* verified under the CompOs key, or those measured after compilation.
PersistedMap == IF LogHasRes("persistDigests", "main", "ok") THEN artDir.files ELSE digests

\* C12: whenever persistDigests(M, K) returned success, getOdsignInfo(K) on
\* the two files as it left them succeeds and returns M, and the signature
\* file holds K's signature over exactly the bytes of the data file.
C12_ManifestRoundTrip ==
  LogHasOpRes("persistDigests", "ok") =>
     \A mf \in ManifestOnDisk(infoFile, sigFile) :
       /\ getOdsignInfoOk(mf[1], mf[2])
       /\ getOdsignInfo(mf[1], mf[2]) = PersistedMap
       /\ mf[2] = Sig(SigningPub, mf[1].bytes)

\* ------------------------------------------------------------------ C13
\* The manifest files as getOdsignInfo found them (nothing writes them
\* between the call and the end of the run).
ManifestGenuine ==
  sigFile.exists /\ infoFile.exists /\ verifySignature(infoFile.bytes, sigFile, SigningPub)
DigestsCompared == LogHasOp("verifyDigests")

\* getOdsignInfo returns a map only from files whose signature verifies, and
\* digests are compared only against such a map.
NoMapFromTamperedManifest ==
  \A i \in DOMAIN log :
    log[i][1] = "getOdsignInfo" =>
       /\ log[i][3] = "ok" => ManifestGenuine
       /\ ~ManifestGenuine => (~DigestsCompared /\ ~LogHasRes("verifyArtifacts", "", "ok"))

\* C13: getOdsignInfo returns a map only if both files were readable and
\* the signature verifies over the data file's exact bytes; if a file is
\* missing or either differs from what was persisted, getOdsignInfo returns
\* an error, and verifyArtifacts then fails without comparing any digest.
C13_TamperDetection ==
  /\ NoMapFromTamperedManifest
  /\ \A i \in DOMAIN log :
       (log[i][1] = "getOdsignInfo" /\ ~ManifestGenuine) =>
          /\ log[i][3] = "error"
          /\ LogHasRes("verifyArtifacts", "", "error")

\* ------------------------------------------------------------------ C14
\* C14: verifyDigests(computed, trusted) succeeds if and only if every path
\* of computed is a key of trusted with the same digest; it succeeds on an
\* empty computed map, and paths that only trusted has never fail it.
C14_VerifyDigestsStrict ==
  pc = "verified" =>
    LET computed == digests
        trusted == getOdsignInfo(infoFile, sigFile)
        ok == LastEvent = Ev("verifyDigests", "", "ok")
        keys == {t[1] : t \in trusted}
    IN /\ ok <=> \A e \in computed :
                    e[1] \in keys /\ \A t \in trusted : t[1] = e[1] => t[2] = e[2]
       /\ computed = {} => ok
       /\ ok => \A extra \in {t \in trusted : t[1] \notin {e[1] : e \in computed}} :
                   verifyDigests(computed, trusted \ {extra})

C14_Witness ==
  /\ pc = "verified"
  /\ LastEvent = Ev("verifyDigests", "", "ok")
  /\ digests = {<<1, 2>>}
  /\ getOdsignInfo(infoFile, sigFile) = {<<1, 2>>, <<2, 1>>}

\* ------------------------------------------------------------------ C15
\* One of the conditions of line 556 was found false.
EligibilityConditionFalse ==
  \/ ~kUseCompOs /\ LogHas("access", "fs-verity")
  \/ LogHasRes("access", "fs-verity", "false")
  \/ LogHasRes("compOsPresent", "", "false")
  \/ LogHasRes("isDebugBuild", "", "false")
OdrefreshCalls == Cardinality({i \in DOMAIN log : log[i][1] = "odrefresh"})
CompOsUntouched ==
  /\ ~LogHasOp("compos_verify_key")
  /\ ~LogHasOp("readBytesFromFile")
  /\ ~LogHasOp("extractRsaPublicKeyFromLeafCert")
  /\ ~LogHasOp("createLeafCertificate")
  /\ ~LogHas("addCertToFsVerityKeyring", "fsv_compos")
  /\ ~LogHasOp("unlink")

\* C15: when one of the eligibility conditions is false the verifier is
\* never run, the CompOs certificate is neither read nor written, the
\* pending directory is never renamed over the live one, and the compiler
\* is run once, in compile mode, never with --check.
C15_EligibilityGate ==
  EligibilityConditionFalse =>
     /\ ~useCompOs
     /\ CompOsUntouched
     /\ ~LogHasOp("directoryHasContent")
     /\ ~LogHasOp("rename")
     /\ \A i \in DOMAIN log :
          log[i][1] = "odrefresh" => log[i][2] = CompileFlag(kForceCompilation)
     /\ OdrefreshCalls <= 1
     /\ (pc \in {"outcome", "finalize", "aborted"} \/ (Exited /\ exitCode = "0"))
          => OdrefreshCalls = 1

C15_Witness ==
  /\ Exited /\ exitCode = "0"
  /\ LogHasRes("isDebugBuild", "", "false")
  /\ LogHasRes("odrefresh", "--compile", "CompilationSuccess")
  /\ OdrefreshCalls = 1
  /\ pendingDir = Dir(FullMap(NumDigests))

\* ------------------------------------------------------------------ C16
SetCount(prop) == Cardinality({i \in DOMAIN log : log[i][1] = "SetProperty" /\ log[i][2] = prop})
SuccessWrittenBothWays ==
  /\ LogHasRes("SetProperty", "odsign.verification.success", kOdsignVerificationStatusValid)
  /\ LogHasRes("SetProperty", "odsign.verification.success", kOdsignVerificationStatusError)

\* C16 as stated: in a run that has returned, each of the four signals was
\* set exactly once, and verification-success was not written with both
\* values.
C16_Original ==
  Exited =>
     /\ SetCount("odsign.key.done") = 1
     /\ SetCount("odsign.verification.done") = 1
     /\ SetCount("odsign.verification.success") = 1
     /\ SetCount("ctl.stop") = 1
     /\ ~SuccessWrittenBothWays

\* C16, amended: in a run in which main returns, verification-done,
\* verification-success and the stop-service request are each set exactly
\* once and verification-success is never written with both values; the
\* key-no-longer-needed signal is set at least once and up to three times,
\* always to "1": in checkCompOsPendingArtifacts after persistDigests, in
\* verifyArtifacts, and by the final success writes or the scope guard.
C16_SignalsSetOncePerRun ==
  /\ Exited =>
       /\ SetCount("odsign.verification.done") = 1
       /\ SetCount("odsign.verification.success") = 1
       /\ SetCount("ctl.stop") = 1
       /\ SetCount("odsign.key.done") \in 1..3
       /\ SetCount("odsign.key.done") =
            1 + (IF LogHasOp("verifyArtifacts") THEN 1 ELSE 0)
              + (IF LogHas("persistDigests", "cpa") THEN 1 ELSE 0)
  /\ ~SuccessWrittenBothWays
  /\ \A i \in DOMAIN log :
       (log[i][1] = "SetProperty" /\ log[i][2] = "odsign.key.done") => log[i][3] = "1"
  /\ ~Exited => /\ SetCount("odsign.verification.done") = 0
                /\ SetCount("odsign.verification.success") = 0
                /\ SetCount("ctl.stop") = 0

C16_Witness ==
  /\ Exited /\ exitCode = "0"
  /\ SetCount("odsign.key.done") = 3
  /\ LogHasRes("persistDigests", "cpa", "error")
  /\ LogHasRes("verifyArtifacts", "", "ok")

\* ------------------------------------------------------------------ C17
CompOsVerifyFailedAt(i) == log[i][1] = "verifyAllFilesUsingCompOs" /\ log[i][3] = "error"
CpaPersistFailedAt(i) == log[i] = Ev("persistDigests", "cpa", "error")
ArtRemovalAt(j) == j \in DOMAIN log /\ log[j][1] = "removeDirectory" /\ log[j][2] = "art"
PostPromotionFailure ==
  \E i \in DOMAIN log : CompOsVerifyFailedAt(i) \/ CpaPersistFailedAt(i)

\* What follows a failure after promotion, apart from the state of the
\* live artifacts directory: its removal is the next thing done,
\* CompilationRequired is returned with digests_verified false, and Okay
\* with digests_verified true needs both steps to have succeeded.
PostPromotionFallback ==
  /\ \A i \in DOMAIN log : CompOsVerifyFailedAt(i) => ArtRemovalAt(i + 1)
  /\ \A i \in DOMAIN log :
       CpaPersistFailedAt(i) =>
          /\ i + 1 \in DOMAIN log
          /\ log[i + 1] = Ev("SetProperty", "odsign.key.done", "1")
          /\ ArtRemovalAt(i + 2)
  /\ PostPromotionFailure =>
       /\ ~digests_verified
       /\ pc = "compile" => odrefresh_status = "CompilationRequired"
       /\ pc # "compile" => LogHas("odrefresh", CompileFlag(kForceCompilation))
  /\ digests_verified =>
       /\ LogHasRes("verifyAllFilesUsingCompOs", compos_key, "ok")
       /\ LogHasRes("persistDigests", "cpa", "ok")
       /\ odrefresh_status = "Okay"

\* C17 as stated: after promotion and an Okay re-check, a failed CompOs
\* verification or a failed persistDigests leaves the live artifacts
\* directory deleted entirely, returns CompilationRequired and leaves
\* digests_verified false; Okay with digests_verified true is returned only
\* when both succeeded.
C17_Original ==
  /\ PostPromotionFallback
  /\ (PostPromotionFailure /\ pc = "compile") => ~artDir.exists

\* C17, amended: as stated, except that removeDirectory is applied to the
\* live artifacts directory, which is gone unless remove_all reported an
\* error.
C17_PostPromotionFailure ==
  /\ PostPromotionFallback
  /\ (PostPromotionFailure /\ pc = "compile") =>
       /\ ArtRemovalAt(Len(log))
       /\ LastEvent[3] = "ok" => ~artDir.exists

C17_Witness ==
  /\ pc = "compile"
  /\ Len(log) > 3
  /\ CpaPersistFailedAt(Len(log) - 2)
  /\ LastEvent = Ev("removeDirectory", "art", "ok")
  /\ ~artDir.exists
  /\ props.keyDone = "1"

\* ------------------------------------------------------------------ C18
\* main's Okay branch looked at the artifacts directory (digests were not
\* verified by adoption) at log position i.
AccessAt(i) == log[i][1] = "access" /\ log[i][2] = "art"
VerificationRunAt(i) == i + 1 \in DOMAIN log /\ log[i + 1][1] = "getOdsignInfo"
VerificationFailed ==
  LogHasRes("verifyArtifacts", "", "error") \/ LogHasRes("getOdsignInfo", "", "abort")

\* C18 as stated, at the end of an accepted Okay branch: verification was
\* run if and only if the directory is non-empty or access failed for
\* another reason than ENOENT; for an absent or empty directory no manifest
\* was loaded.
C18_Original ==
  \A i \in DOMAIN log :
    (AccessAt(i) /\ pc = "finalize") =>
       /\ VerificationRunAt(i) <=>
            (log[i][3] = "EOTHER" \/ (artDir.exists /\ artDir.files # {}))
       /\ (~artDir.exists \/ artDir.files = {}) /\ log[i][3] # "EOTHER"
            => ~LogHasOp("getOdsignInfo")

\* C18, amended: when the outcome is Okay and digests were not already
\* verified, verification against the loaded manifest is run if and only if
\* the live artifacts directory exists (empty or not) or is inaccessible for
\* another reason than ENOENT; when it does not exist no manifest is loaded
\* and the run succeeds, and when verification is run any failure of it is
\* fatal.
C18_VerifyUnlessAbsent ==
  /\ \A i \in DOMAIN log :
       AccessAt(i) =>
          /\ odrefresh_status = "Okay" /\ ~digests_verified
          /\ VerificationRunAt(i) <=> log[i][3] # "ENOENT"
          /\ pc = "finalize" =>
               /\ log[i][3] = "0" => artDir.exists
               /\ log[i][3] = "ENOENT" => ~artDir.exists
          /\ ~VerificationRunAt(i) =>
               /\ ~LogHasOp("getOdsignInfo")
               /\ pc = "finalize" \/ (Exited /\ exitCode = "0" /\ ValidSet)
  /\ VerificationFailed =>
       /\ ~ValidSet
       /\ (Exited /\ exitCode = "-1") \/ pc = "aborted"
  /\ LogHasOp("getOdsignInfo") => \E i \in DOMAIN log : AccessAt(i)

C18_Witness ==
  /\ pc = "finalize"
  /\ artDir = Dir({})
  /\ LogHasRes("access", "art", "0")
  /\ LogHasRes("verifyArtifacts", "", "ok")

\* ------------------------------------------------------------------ C19
\* addCompOsCertToFsVerityKeyring has returned without a key.
CompOsKeyFailed ==
  /\ pc \notin {"vck_pending", "vck_cached", "vck_current", "vck_readkey",
                "vck_mkcert", "compos_add"}
  /\ \/ (LogHasRes("extractRsaPublicKeyFromLeafCert", "compos_key.cert", "error")
           /\ ~CurrentAttestationSucceeded)
     \/ LogHasRes("readBytesFromFile", "current/key.pubkey", "")
     \/ LeafCertFailed
     \/ LogHasRes("addCertToFsVerityKeyring", "fsv_compos", "error")

\* C19: when the CompOs path is eligible but no trusted CompOs key is
\* obtained, the run goes on: the adoption decision is skipped, the outcome
\* stays CompilationRequired and the compiler is run in compile mode
\* exactly once.
C19_CompOsKeyFailureNotFatal ==
  CompOsKeyFailed =>
     /\ useCompOs
     /\ compos_key = ""
     /\ ~LogHasOp("directoryHasContent")
     /\ ~LogHas("odrefresh", "--check")
     /\ ~LogHasOp("rename")
     /\ ~digests_verified
     /\ pc = "compile" =>
          /\ odrefresh_status = "CompilationRequired"
          /\ OdrefreshCalls = 0
          /\ exitCode = "running" /\ GuardRuns = 0
     /\ pc # "compile" =>
          /\ OdrefreshCalls = 1
          /\ LogHas("odrefresh", CompileFlag(kForceCompilation))

C19_Witness ==
  /\ Exited /\ exitCode = "0"
  /\ LogHasRes("addCertToFsVerityKeyring", "fsv_compos", "error")
  /\ LogHasRes("unlink", "compos_key.cert", "ok")
  /\ OdrefreshCalls = 1
  /\ composCert = NoCert

\* ------------------------------------------------------------------ C20
LiveAttested == PendingAttestationSucceeded \/ CurrentAttestationSucceeded
AttestedAt(a) == log[a][1] = "compos_verify_key" /\ log[a][3] = "0"
KeyReadAt(r) == log[r][1] = "readBytesFromFile" /\ log[r][2] = "current/key.pubkey"

\* C20: when verifyCompOsKey succeeds through a live attestation, the key it
\* returns is the non-empty content of the current public key file, read
\* after the attestation, and a certificate binding that key, signed by the
\* signing key with the fixed subject, has replaced any earlier one; when
\* the file reads empty after a successful attestation the call fails and
\* no certificate is written.
C20_ReturnedKeyIsFileContent ==
  /\ \A r \in DOMAIN log :
       KeyReadAt(r) => (r > 1 /\ AttestedAt(r - 1))
  /\ (LiveAttested /\ pc = "compos_add") =>
       /\ \E r \in DOMAIN log : KeyReadAt(r) /\ log[r][3] = compos_key
       /\ compos_key # ""
       /\ composCert.pub = compos_key
       /\ composCert.signer = SigningPub
       /\ composCert.cn = kCompOsSubjectCn
  /\ \A r \in DOMAIN log :
       (KeyReadAt(r) /\ log[r][3] = "") =>
          /\ ~LogHasOp("createLeafCertificate")
          /\ compos_key = ""
          /\ ~VckSucceeded
          /\ pc \notin {"vck_mkcert", "compos_add"}

C20_Witness ==
  /\ pc = "compos_add"
  /\ PendingAttestationSucceeded
  /\ compos_key = "ck2"
  /\ composCert = X509("ck2", SigningPub, kCompOsSubjectCn)
  /\ LogHasRes("readBytesFromFile", "current/key.pubkey", "ck2")

\* ------------------------------------------------------------------ C21
\* The steps that depend on the root of trust: the verifier, the compiler,
\* the leaf certificate, the manifest read and the manifest write.
TrustDependentAt(i) ==
  log[i][1] \in {"compos_verify_key", "odrefresh", "createLeafCertificate",
                 "getOdsignInfo", "key.sign", "WriteStringToFile", "persistDigests"}
RootCertBoundBefore(i) ==
  \E j \in 1..(i - 1) :
     \/ log[j] = Ev("verifyExistingRootCert", "", "ok")
     \/ log[j] = Ev("createX509RootCert", "", "ok")
RootCertRegisteredBefore(i) ==
  \E j \in 1..(i - 1) : log[j] = Ev("addCertToFsVerityKeyring", "fsv_ods", "ok")
RootCertTouched ==
  \/ LogHasOp("verifyExistingRootCert")
  \/ LogHasOp("createX509RootCert")
  \/ LogHas("addCertToFsVerityKeyring", "fsv_ods")

\* C21: with fs-verity, every verifier or compiler invocation, every leaf
\* certificate creation and every manifest read or write comes after the
\* root certificate was found or made for the signing key's public key and
\* was registered, and that certificate is at the fixed path; without
\* fs-verity the root certificate is never verified, created or registered.
C21_RootOfTrustFirst ==
  /\ supportsFsVerity =>
       \A i \in DOMAIN log :
          TrustDependentAt(i) =>
             /\ RootCertBoundBefore(i)
             /\ RootCertRegisteredBefore(i)
             /\ rootCert.kind = "x509"
             /\ rootCert.pub = SigningPub
  /\ ~supportsFsVerity => ~RootCertTouched

C21_Witness ==
  /\ supportsFsVerity
  /\ rootCert = RootCertFor(SigningPub)
  /\ LogHasOpRes("createX509RootCert", "ok")
  /\ LogHasOp("compos_verify_key")
  /\ LogHasOpRes("createLeafCertificate", "ok")
  /\ LogHas("odrefresh", CompileFlag(kForceCompilation))
  /\ LogHasRes("persistDigests", "main", "ok")

\* ------------------------------------------------------------------ C22
ChecksAt == {i \in DOMAIN log : log[i][1] = "odrefresh" /\ log[i][2] = "--check"}
CompilesAt == {i \in DOMAIN log : log[i][1] = "odrefresh" /\ log[i][2] # "--check"}
PromotedBetween(i, j) ==
  \E r \in (i + 1)..(j - 1) : log[r] = Ev("rename", "pending->art", "ok")

\* C22: within a run the verifier is invoked at most once for the pending
\* and at most once for the current instance; odrefresh runs --check at
\* most twice, the second time only after the promotion that followed the
\* first, and compiles at most once; and no operation is followed at once
\* by the same operation on the same argument.
C22_NoRetry ==
  /\ LogCount("compos_verify_key", "pending") <= 1
  /\ LogCount("compos_verify_key", "current") <= 1
  /\ Cardinality(ChecksAt) <= 2
  /\ \A i \in ChecksAt, j \in ChecksAt : i < j => PromotedBetween(i, j)
  /\ Cardinality(CompilesAt) <= 1
  /\ \A i \in DOMAIN log :
       i + 1 \in DOMAIN log => ~(log[i][1] = log[i + 1][1] /\ log[i][2] = log[i + 1][2])

C22_Witness ==
  /\ Exited
  /\ LogHasRes("compos_verify_key", "pending", "nonzero")
  /\ LogHasRes("compos_verify_key", "current", "0")
  /\ Cardinality(ChecksAt) = 2
  /\ Cardinality(CompilesAt) = 1

\* ------------------------------------------------------------------ C23
PastApplicability == LogHasRes("GetBoolProperty", "ro.apex.updatable", "true")
Terminated == pc \in {"done", "aborted"}
CompletionSignals ==
  /\ props.verificationDone = "1"
  /\ props.verificationStatus \in {kOdsignVerificationStatusValid,
                                   kOdsignVerificationStatusError}
  /\ props.stopService = "odsign"

\* A run that returned from main past the applicability check has set the
\* completion signals.
SignalsAtReturn == (Exited /\ PastApplicability) => CompletionSignals

\* main is one sequential thread: as long as every call returns, the next
\* step is taken.  Under that scheduling every run ends.
SpecLive == Spec /\ WF_vars(Next)
EventuallyTerminated == <>Terminated

\* C23: when a run that got past the applicability check has ended,
\* verification-done is "1", verification-success holds the valid or the
\* error value, and the stop-service request has been issued.
C23_SignalsAtTermination == (Terminated /\ PastApplicability) => CompletionSignals

\* ------------------------------------------------------------------ C24
KeyDoneSetAt(i) == log[i] = Ev("SetProperty", "odsign.key.done", "1")
KeyUsedAt(j) ==
  \/ log[j][1] \in {"key.sign", "persistDigests", "addFilesToVerityRecursive"}
  \/ log[j][1] = "odrefresh" /\ log[j][2] # "--check"

\* C24: after odsign.key.done has been set, the run makes no call to
\* key.sign, persistDigests or addFilesToVerityRecursive and does not run
\* odrefresh in compile mode.
C24_KeyUnusedAfterDone ==
  \A i \in DOMAIN log :
     KeyDoneSetAt(i) => \A j \in (i + 1)..Len(log) : ~KeyUsedAt(j)

\* ------------------------------------------------------------------ C25
PromotedAt(r) == log[r] = Ev("rename", "pending->art", "ok")
CompOsVerifiedAfter(r) ==
  \E v \in (r + 1)..Len(log) : log[v][1] = "verifyAllFilesUsingCompOs" /\ log[v][3] = "ok"
CompiledBetween(r, j) ==
  \E c \in (r + 1)..(j - 1) : log[c][1] = "odrefresh" /\ log[c][2] # "--check"
ManifestSignedAt(j) == log[j][1] = "persistDigests" /\ log[j][3] = "ok"

\* C25: after the pending directory was promoted, a manifest is persisted,
\* and the run ends in success, only if the promoted artifacts were verified
\* under the CompOs key or odrefresh compiled after the promotion.
C25_PromotedNeverSignedUnverified ==
  \A r \in DOMAIN log :
     PromotedAt(r) =>
        /\ \A j \in (r + 1)..Len(log) :
              ManifestSignedAt(j) => (CompOsVerifiedAfter(r) \/ CompiledBetween(r, j))
        /\ (Exited /\ exitCode = "0") =>
              (CompOsVerifiedAfter(r) \/ CompiledBetween(r, Len(log) + 1))

====
